---- MODULE Spec2Model ----
(***************************************************************************)
(* LFUCache of LeastFrequentlyUsed.py: a key index (data), a frequency     *)
(* index of insertion-ordered groups (freq_map, a defaultdict of           *)
(* OrderedDict) and the scalar min_freq, driven either by the module's own *)
(* test script or by an arbitrary client calling get and set.              *)
(***************************************************************************)
EXTENDS Integers, Sequences, FiniteSets, TLC

VARIABLES capacity, data, freq_map, min_freq,  \* the fields of LFUCache
          client, pc, out,                     \* who drives the cache; script position; printed lines
          last,                                \* the call that produced this state
          lru, lastSet,                        \* history: access order of live keys, last value set per key
          afterSet, run,                       \* history: this get follows a set of its key; streak of hits
          ref, refRet,                         \* the reference LFU run side by side, and its last result
          ctx, serial                          \* two execution contexts inside get/set; are their calls serialized

vars == <<capacity, data, freq_map, min_freq, client, pc, out, last, lru, lastSet,
          afterSet, run, ref, refRet, ctx, serial>>

----------------------------------------------------------------------------
(* Bounds of the exploration *)
MaxCapacity == 2
MaxKey      == 3
MaxValue    == 2
MaxFreq     == 3

Keys       == 1..MaxKey
Values     == 1..MaxValue
Capacities == -1..MaxCapacity

----------------------------------------------------------------------------
(* Python values *)
None    == <<>>            \* what get returns for a missing key
Some(v) == <<v>>           \* any other returned object

(* Sequence helpers standing for OrderedDict operations *)
Range(s)     == {s[i] : i \in 1..Len(s)}
Remove(s, k) == SelectSeq(s, LAMBDA x : x # k)          \* del od[k]
Put_front(s, k) == IF k \in Range(s) THEN s ELSE <<k>> \o s
Put(s, k)    == IF k \in Range(s) THEN s ELSE Append(s, k) \* od[k] = node
Without(f, x) == [y \in (DOMAIN f) \ {x} |-> f[y]]       \* del d[x]
With(f, x, v) == [y \in (DOMAIN f) \cup {x} |-> IF y = x THEN v ELSE f[y]]  \* d[x] = v

(* defaultdict(OrderedDict).__getitem__: a missing frequency gets an empty group *)
Touch(fm, f) == IF f \in DOMAIN fm THEN fm ELSE With(fm, f, <<>>)

(* class Node *)
Node(key, value) == [key |-> key, value |-> value, freq |-> 1]

(* LFUCache.__init__ *)
LFUCache(cap) == [capacity |-> cap, data |-> <<>>, freq_map |-> <<>>, min_freq |-> 0]

(* The cache object as one record *)
self == [capacity |-> capacity, data |-> data, freq_map |-> freq_map, min_freq |-> min_freq]

(* Result of a call: the cache afterwards, the returned value, the evicted keys, *)
(* and whether a KeyError propagated to the caller.                              *)
Result(s, r, ev, err) == [self |-> s, ret |-> r, evicted |-> ev, raised |-> err]

----------------------------------------------------------------------------
(* LFUCache._update_freq(node), node = s.data[key] *)
_update_freq_keep_min(s, key) ==
    LET f   == s.data[key].freq
        fm0 == Touch(s.freq_map, f)
    IN  IF key \notin Range(fm0[f])
        THEN Result([s EXCEPT !.freq_map = fm0], None, {}, TRUE)
        ELSE LET fm1   == [fm0 EXCEPT ![f] = Remove(@, key)]
                 empty == fm1[f] = <<>>
                 fm2   == IF empty THEN Without(fm1, f) ELSE fm1
                 fm3   == Touch(fm2, f + 1)
             IN  Result([s EXCEPT !.freq_map = [fm3 EXCEPT ![f + 1] = Put(@, key)],
                                  !.data[key].freq = f + 1],
                        None, {}, FALSE)

_update_freq_by_two(s, key) ==
    LET f   == s.data[key].freq
        fm0 == Touch(s.freq_map, f)
    IN  IF key \notin Range(fm0[f])
        THEN Result([s EXCEPT !.freq_map = fm0], None, {}, TRUE)
        ELSE LET fm1   == [fm0 EXCEPT ![f] = Remove(@, key)]
                 empty == fm1[f] = <<>>
                 fm2   == IF empty THEN Without(fm1, f) ELSE fm1
                 mf    == IF empty /\ f = s.min_freq THEN s.min_freq + 2 ELSE s.min_freq
                 fm3   == Touch(fm2, f + 2)
             IN  Result([s EXCEPT !.freq_map = [fm3 EXCEPT ![f + 2] = Put(@, key)],
                                  !.min_freq = mf,
                                  !.data[key].freq = f + 2],
                        None, {}, FALSE)

_update_freq(s, key) ==
    LET f   == s.data[key].freq
        fm0 == Touch(s.freq_map, f)                      \* self.freq_map[node.freq]
    IN  IF key \notin Range(fm0[f])                       \* del ...[node.key]: KeyError
        THEN Result([s EXCEPT !.freq_map = fm0], None, {}, TRUE)
        ELSE LET fm1   == [fm0 EXCEPT ![f] = Remove(@, key)]
                 empty == fm1[f] = <<>>
                 fm2   == IF empty THEN Without(fm1, f) ELSE fm1
                 mf    == IF empty /\ f = s.min_freq THEN s.min_freq + 1 ELSE s.min_freq
                 fm3   == Touch(fm2, f + 1)
             IN  Result([s EXCEPT !.freq_map = [fm3 EXCEPT ![f + 1] = Put(@, key)],
                                  !.min_freq = mf,
                                  !.data[key].freq = f + 1],
                        None, {}, FALSE)

----------------------------------------------------------------------------
(* LFUCache.get(key) *)
get_touching(s, key) ==
    IF key \notin DOMAIN s.data
    THEN Result([s EXCEPT !.freq_map = Touch(@, s.min_freq)], None, {}, FALSE)
    ELSE LET u == _update_freq(s, key)
         IN  IF u.raised THEN u
             ELSE Result(u.self, Some(u.self.data[key].value), {}, FALSE)

get_no_promote(s, key) ==
    IF key \notin DOMAIN s.data
    THEN Result(s, None, {}, FALSE)
    ELSE Result(s, Some(s.data[key].value), {}, FALSE)

get(s, key) ==
    IF key \notin DOMAIN s.data
    THEN Result(s, None, {}, FALSE)
    ELSE LET u == _update_freq(s, key)
         IN  IF u.raised THEN u
             ELSE Result(u.self, Some(u.self.data[key].value), {}, FALSE)

----------------------------------------------------------------------------
(* The eviction branch of LFUCache.set: popitem(last=False) on the group at *)
(* min_freq, del self.data[lfu_key], drop the group when it became empty.   *)
evict_newest(s) ==
    LET fm0 == Touch(s.freq_map, s.min_freq)
        g   == fm0[s.min_freq]
    IN  IF g = <<>>
        THEN Result([s EXCEPT !.freq_map = fm0], None, {}, TRUE)
        ELSE LET lfu_key == g[Len(g)]
                 fm1     == [fm0 EXCEPT ![s.min_freq] = Remove(@, lfu_key)]
             IN  IF lfu_key \notin DOMAIN s.data
                 THEN Result([s EXCEPT !.freq_map = fm1], None, {}, TRUE)
                 ELSE Result([s EXCEPT !.data = Without(@, lfu_key),
                                      !.freq_map = IF fm1[s.min_freq] = <<>>
                                                   THEN Without(fm1, s.min_freq)
                                                   ELSE fm1],
                             None, {lfu_key}, FALSE)

evict_keep_index(s) ==
    LET fm0 == Touch(s.freq_map, s.min_freq)
        g   == fm0[s.min_freq]
    IN  IF g = <<>>
        THEN Result([s EXCEPT !.freq_map = fm0], None, {}, TRUE)
        ELSE LET lfu_key == Head(g)
                 fm1     == [fm0 EXCEPT ![s.min_freq] = Tail(@)]
             IN  Result([s EXCEPT !.freq_map = IF fm1[s.min_freq] = <<>>
                                               THEN Without(fm1, s.min_freq)
                                               ELSE fm1],
                        None, {lfu_key}, FALSE)

evict(s) ==
    LET fm0 == Touch(s.freq_map, s.min_freq)             \* self.freq_map[self.min_freq]
        g   == fm0[s.min_freq]
    IN  IF g = <<>>                                       \* popitem on an empty dict: KeyError
        THEN Result([s EXCEPT !.freq_map = fm0], None, {}, TRUE)
        ELSE LET lfu_key == Head(g)
                 fm1     == [fm0 EXCEPT ![s.min_freq] = Tail(@)]
             IN  IF lfu_key \notin DOMAIN s.data          \* del self.data[lfu_key]: KeyError
                 THEN Result([s EXCEPT !.freq_map = fm1], None, {}, TRUE)
                 ELSE Result([s EXCEPT !.data = Without(@, lfu_key),
                                      !.freq_map = IF fm1[s.min_freq] = <<>>
                                                   THEN Without(fm1, s.min_freq)
                                                   ELSE fm1],
                             None, {lfu_key}, FALSE)

(* The tail of LFUCache.set: a new node enters data and the group of frequency 1 *)
insert_keep_min(s, key, value) ==
    [s EXCEPT !.data     = With(@, key, Node(key, value)),
              !.freq_map = [Touch(@, 1) EXCEPT ![1] = Put(@, key)]]

insert(s, key, value) ==
    [s EXCEPT !.data     = With(@, key, Node(key, value)),
              !.freq_map = [Touch(@, 1) EXCEPT ![1] = Put(@, key)],
              !.min_freq = 1]

(* LFUCache.set(key, value) *)
set_strict_full(s, key, value) ==
    IF s.capacity = 0 THEN Result(s, None, {}, FALSE)
    ELSE IF key \in DOMAIN s.data
    THEN _update_freq([s EXCEPT !.data[key].value = value], key)
    ELSE IF Cardinality(DOMAIN s.data) > s.capacity
         THEN LET e == evict(s)
              IN  IF e.raised THEN e
                  ELSE Result(insert(e.self, key, value), None, e.evicted, FALSE)
         ELSE Result(insert(s, key, value), None, {}, FALSE)

set_keep_value(s, key, value) ==
    IF s.capacity = 0 THEN Result(s, None, {}, FALSE)
    ELSE IF key \in DOMAIN s.data
    THEN _update_freq(s, key)
    ELSE IF Cardinality(DOMAIN s.data) >= s.capacity
         THEN LET e == evict(s)
              IN  IF e.raised THEN e
                  ELSE Result(insert(e.self, key, value), None, e.evicted, FALSE)
         ELSE Result(insert(s, key, value), None, {}, FALSE)

set_evict_first(s, key, value) ==
    IF s.capacity = 0 THEN Result(s, None, {}, FALSE)
    ELSE IF Cardinality(DOMAIN s.data) >= s.capacity
    THEN LET e == evict(s)
         IN  IF e.raised THEN e
             ELSE IF key \in DOMAIN e.self.data
             THEN [_update_freq([e.self EXCEPT !.data[key].value = value], key)
                      EXCEPT !.evicted = e.evicted]
             ELSE Result(insert(e.self, key, value), None, e.evicted, FALSE)
    ELSE IF key \in DOMAIN s.data
    THEN _update_freq([s EXCEPT !.data[key].value = value], key)
    ELSE Result(insert(s, key, value), None, {}, FALSE)

set_no_zero_check(s, key, value) ==
    IF key \in DOMAIN s.data
    THEN _update_freq([s EXCEPT !.data[key].value = value], key)
    ELSE IF Cardinality(DOMAIN s.data) >= s.capacity
         THEN LET e == evict(s)
              IN  IF e.raised THEN e
                  ELSE Result(insert(e.self, key, value), None, e.evicted, FALSE)
         ELSE Result(insert(s, key, value), None, {}, FALSE)

set(s, key, value) ==
    IF s.capacity = 0 THEN Result(s, None, {}, FALSE)
    ELSE IF key \in DOMAIN s.data
    THEN _update_freq([s EXCEPT !.data[key].value = value], key)
    ELSE IF Cardinality(DOMAIN s.data) >= s.capacity
         THEN LET e == evict(s)
              IN  IF e.raised THEN e
                  ELSE Result(insert(e.self, key, value), None, e.evicted, FALSE)
         ELSE Result(insert(s, key, value), None, {}, FALSE)

----------------------------------------------------------------------------
(* The module-level test: lfu = LFUCache(2) followed by ten calls *)
TestCapacity == 2
TestScript ==
    << [op |-> "set", args |-> <<1, 1>>], [op |-> "set", args |-> <<2, 2>>],
       [op |-> "get", args |-> <<1>>],    [op |-> "set", args |-> <<3, 3>>],
       [op |-> "get", args |-> <<2>>],    [op |-> "get", args |-> <<3>>],
       [op |-> "set", args |-> <<4, 4>>], [op |-> "get", args |-> <<1>>],
       [op |-> "get", args |-> <<3>>],    [op |-> "get", args |-> <<4>>] >>

(* One call op(args) on the cache *)
Call(s, op, args) == IF op = "get" THEN get(s, args[1]) ELSE set(s, args[1], args[2])

(* History: the live keys by last access (oldest first), and the value last passed *)
(* to set for each key that is still live                                         *)
Accessed(s, op, args, r) ==
    /\ ~r.raised
    /\ \/ op = "get" /\ args[1] \in DOMAIN s.data
       \/ op = "set" /\ s.capacity # 0

NextLru(s, op, args, r) ==
    LET live == SelectSeq(lru, LAMBDA k : k \in DOMAIN r.self.data)
    IN  IF Accessed(s, op, args, r) THEN Append(Remove(live, args[1]), args[1]) ELSE live

NextLastSet(op, args, r) ==
    LET kept == [k \in (DOMAIN lastSet) \cap (DOMAIN r.self.data) |-> lastSet[k]]
    IN  IF op = "set" /\ args[1] \in DOMAIN r.self.data
        THEN With(kept, args[1], args[2])
        ELSE kept

(* History: the call is a get of the key that the call just before it set *)
NextAfterSet(op, args) ==
    /\ op = "get"
    /\ last.op = "set" /\ ~last.raised
    /\ last.args[1] = args[1]

(* History: n = how many get hits on the same key ended here in a row,     *)
(* freq0 = the freq of that key before the first of them                   *)
NoRun == [n |-> 0, freq0 |-> 0]
NextRun(s, op, args, r) ==
    IF op = "get" /\ args[1] \in DOMAIN s.data /\ ~r.raised
    THEN IF run.n > 0 /\ last.op = "get" /\ last.args = args
         THEN [run EXCEPT !.n = @ + 1]
         ELSE [n |-> 1, freq0 |-> s.data[args[1]].freq]
    ELSE NoRun

(* The reference LFU: one record (key, value, freq) per key, kept in the    *)
(* order of last access (oldest first, standing for the last-access time);  *)
(* the victim is found by scanning for the smallest (freq, last access).    *)
RefIndex(rf, key) == {i \in 1..Len(rf) : rf[i].key = key}
RefDrop(rf, i)    == SubSeq(rf, 1, i - 1) \o SubSeq(rf, i + 1, Len(rf))
RefVictim(rf) ==
    CHOOSE i \in 1..Len(rf) :
        \A j \in 1..Len(rf) :
            \/ rf[i].freq < rf[j].freq
            \/ rf[i].freq = rf[j].freq /\ i <= j
RefTouch(rf, i, value) ==
    Append(RefDrop(rf, i), [key |-> rf[i].key, value |-> value, freq |-> rf[i].freq + 1])
RefGet(rf, key) ==
    IF RefIndex(rf, key) = {}
    THEN [ref |-> rf, ret |-> None]
    ELSE LET i == CHOOSE i \in RefIndex(rf, key) : TRUE
         IN  [ref |-> RefTouch(rf, i, rf[i].value), ret |-> Some(rf[i].value)]
RefSet(rf, cap, key, value) ==
    IF cap <= 0 THEN [ref |-> rf, ret |-> None]
    ELSE IF RefIndex(rf, key) # {}
    THEN [ref |-> RefTouch(rf, CHOOSE i \in RefIndex(rf, key) : TRUE, value), ret |-> None]
    ELSE LET room == IF Len(rf) >= cap THEN RefDrop(rf, RefVictim(rf)) ELSE rf
         IN  [ref |-> Append(room, [key |-> key, value |-> value, freq |-> 1]), ret |-> None]
RefCall(rf, cap, op, args) ==
    IF op = "get" THEN RefGet(rf, args[1]) ELSE RefSet(rf, cap, args[1], args[2])

(* An execution context between two calls; calls = how many it has completed *)
Contexts == {1, 2}
Idle(calls) == [pc |-> "idle", op |-> "none", key |-> 0, value |-> 0,
                node |-> <<>>, lfu_key |-> 0, calls |-> calls]

(* The effect of one call on all variables but client, pc, out, ctx and serial *)
Apply(op, args, r) ==
    /\ capacity' = r.self.capacity
    /\ data'     = r.self.data
    /\ freq_map' = r.self.freq_map
    /\ min_freq' = r.self.min_freq
    /\ last'     = [op |-> op, args |-> args, ret |-> r.ret,
                    evicted |-> r.evicted, raised |-> r.raised]
    /\ lru'      = NextLru(self, op, args, r)
    /\ lastSet'  = NextLastSet(op, args, r)
    /\ afterSet' = NextAfterSet(op, args)
    /\ run'      = NextRun(self, op, args, r)
    /\ ref'      = RefCall(ref, capacity, op, args).ref
    /\ refRet'   = RefCall(ref, capacity, op, args).ret

Init ==
    /\ client \in {"test", "any"}
    /\ capacity \in (IF client = "test" THEN {TestCapacity} ELSE Capacities)
    /\ data = LFUCache(capacity).data
    /\ freq_map = LFUCache(capacity).freq_map
    /\ min_freq = LFUCache(capacity).min_freq
    /\ pc = 0
    /\ out = <<>>
    /\ last = [op |-> "new", args |-> <<capacity>>, ret |-> None, evicted |-> {}, raised |-> FALSE]
    /\ lru = <<>>
    /\ lastSet = <<>>
    /\ afterSet = FALSE
    /\ run = NoRun
    /\ ref = <<>>
    /\ refRet = None
    /\ ctx = [c \in Contexts |-> Idle(0)]
    /\ serial = TRUE

(* A client calls get(key) *)
Get ==
    /\ client = "any"
    /\ \E key \in Keys :
         /\ key \in DOMAIN data => data[key].freq < MaxFreq
         /\ Apply("get", <<key>>, get(self, key))
    /\ UNCHANGED <<client, pc, out, ctx, serial>>

(* A client calls set(key, value) *)
Set ==
    /\ client = "any"
    /\ \E key \in Keys, value \in Values :
         /\ key \in DOMAIN data => data[key].freq < MaxFreq
         /\ Apply("set", <<key, value>>, set(self, key, value))
    /\ UNCHANGED <<client, pc, out, ctx, serial>>

(* The next statement of the module-level test; a get is printed *)
TestStep ==
    /\ client = "test"
    /\ pc < Len(TestScript)
    /\ LET c == TestScript[pc + 1]
           r == Call(self, c.op, c.args)
       IN  /\ Apply(c.op, c.args, r)
           /\ pc'  = IF r.raised THEN Len(TestScript) ELSE pc + 1
           /\ out' = IF c.op = "get" /\ ~r.raised THEN Append(out, r.ret) ELSE out
    /\ UNCHANGED <<client, ctx, serial>>

Next == Get \/ Set \/ TestStep

Spec == Init /\ [][Next]_vars

----------------------------------------------------------------------------
(* Helpers of the properties *)
Live      == DOMAIN data
Pos(s, k) == CHOOSE i \in 1..Len(s) : s[i] = k
Freqs     == {data[k].freq : k \in Live}
TestDone  == client = "test" /\ pc = Len(TestScript)
TestAt(n) == client = "test" /\ pc = n

----------------------------------------------------------------------------
(* C1: for every capacity >= 0, after each call the key index holds at most *)
(* capacity keys when capacity > 0 and no key at all when capacity = 0.     *)
C1_SizeWithinCapacity ==
    /\ capacity > 0 => Cardinality(Live) <= capacity
    /\ capacity = 0 => Live = {}

(* a set that had to evict, leaving the store exactly full *)
C1_Witness ==
    /\ last.op = "set" /\ last.evicted # {}
    /\ capacity > 0 /\ Cardinality(Live) = capacity

(* C2: whenever a set evicts, the evicted entry's freq is <= the freq of    *)
(* every other entry live just before, and among the entries of that freq   *)
(* it is the one whose most recent access is the oldest.                    *)
C2_EvictsLfuThenLru ==
    [][\A k \in last'.evicted :
          /\ k \in Live
          /\ \A j \in Live \ {k} :
                /\ data[k].freq <= data[j].freq
                /\ data[j].freq = data[k].freq => Pos(lru, k) < Pos(lru, j)]_vars

(* an eviction that was decided by recency: a survivor still at the victim's freq 1 *)
C2_Witness ==
    /\ last.op = "set" /\ last.evicted # {}
    /\ \E j \in Live \ {last.args[1]} : data[j].freq = 1

(* C3 as stated: in the capacity-2 scenario set(4,4) evicts key 3 and the   *)
(* last three gets give 1, not found, 4.                                    *)
C3_ScenarioAsStated ==
    /\ TestAt(3) => out = <<Some(1)>>
    /\ TestAt(4) => last.evicted = {2}
    /\ TestAt(6) => out = <<Some(1), None, Some(3)>>
    /\ TestAt(7) => last.evicted = {3}
    /\ TestDone => out = <<Some(1), None, Some(3), Some(1), None, Some(4)>>

(* C3 amended: in the capacity-2 scenario get(1) returns 1, set(3,3) evicts *)
(* key 2, get(2) is not found, get(3) returns 3, set(4,4) evicts key 1, and *)
(* the last three gets give not found, 3, 4.                                *)
C3_Scenario ==
    /\ TestAt(3) => out = <<Some(1)>>
    /\ TestAt(4) => last.evicted = {2}
    /\ TestAt(5) => out = <<Some(1), None>>
    /\ TestAt(6) => out = <<Some(1), None, Some(3)>>
    /\ TestAt(7) => last.evicted = {1}
    /\ TestDone => out = <<Some(1), None, Some(3), None, Some(3), Some(4)>>

(* the scenario ran to its last get *)
C3_Witness == TestDone /\ ~last.raised /\ Len(out) = 6

(* C4: in the module's test, keys 1 and 3 are tied at freq 2 when set(4,4)  *)
(* runs with key 1 the less recently used, so set(4,4) evicts key 1 and the *)
(* final three gets return None, 3 and 4.                                   *)
C4_ModuleTest ==
    /\ TestAt(6) => /\ data[1].freq = 2 /\ data[3].freq = 2
                    /\ freq_map[2] = <<1, 3>>
                    /\ Pos(lru, 1) < Pos(lru, 3)
    /\ TestAt(7) => last.evicted = {1} /\ Live = {3, 4}
    /\ TestDone => SubSeq(out, 4, 6) = <<None, Some(3), Some(4)>>

(* set(4,4) has just evicted out of the tie *)
C4_Witness == TestAt(7) /\ last.evicted = {1} /\ min_freq = 1

(* C5: a get(k) that finds k returns the value of the most recent           *)
(* set(k, .), and get(k) returns None exactly when k is not in the key      *)
(* index at the call.                                                       *)
C5_GetReturnsLastSet ==
    [][last'.op = "get" =>
          /\ last'.ret = None <=> last'.args[1] \notin Live
          /\ last'.ret # None =>
                /\ last'.args[1] \in DOMAIN lastSet
                /\ last'.ret = Some(lastSet[last'.args[1]])]_vars

(* a hit on a key whose value was replaced at least once while another key is live *)
C5_Witness ==
    /\ last.op = "get" /\ last.ret # None
    /\ data[last.args[1]].freq >= 3
    /\ Cardinality(Live) >= 2

(* C6: get(k) on a key that is not in the store leaves the key index, every *)
(* entry, every frequency group (none is created) and min_freq unchanged.   *)
C6_MissChangesNothing ==
    [][(last'.op = "get" /\ last'.args[1] \notin Live) =>
          UNCHANGED <<capacity, data, freq_map, min_freq>>]_vars

(* a miss on a store that holds other keys *)
C6_Witness ==
    /\ last.op = "get" /\ last.ret = None /\ ~last.raised
    /\ Live # {} /\ last.args[1] \notin Live

(* C7: freq is 1 right after insertion, grows by exactly 1 on a get hit and *)
(* on a set of the present key, and is unchanged by calls on other keys.    *)
C7_FreqSteps ==
    [][\A k \in DOMAIN data' :
          /\ k \notin Live => data'[k].freq = 1
          /\ (k \in Live /\ last'.args[1] = k) => data'[k].freq = data[k].freq + 1
          /\ (k \in Live /\ last'.args[1] # k) => data'[k].freq = data[k].freq]_vars

(* an entry promoted twice next to an entry that never was *)
C7_Witness ==
    \E k, j \in Live : data[k].freq >= 3 /\ data[j].freq = 1

(* C8: for capacity >= 1, whenever the store is non-empty min_freq is the   *)
(* minimum freq over the live entries.                                      *)
C8_MinFreqExact ==
    (capacity >= 1 /\ Live # {}) =>
        /\ min_freq \in Freqs
        /\ \A f \in Freqs : min_freq <= f

(* the minimum moved up: a promotion emptied the group at min_freq *)
C8_Witness ==
    /\ capacity >= 1 /\ Cardinality(Live) >= 2
    /\ min_freq >= 2 /\ last.op \in {"get", "set"}

(* C9: no get or set call raises, on any store the constructor returns.     *)
C9_NoCallRaises == ~last.raised

(* C10: a negative capacity is rejected at construction, so no get or set   *)
(* ever runs on a store with capacity < 0.                                  *)
C10_NegativeCapacityRejected ==
    ~(capacity < 0 /\ last.op \in {"get", "set"})

(* C11: on a store with capacity 0 every set(k, v) leaves the state unchanged *)
(* (key index empty, no groups, min_freq unchanged) and every get(k) returns  *)
(* not found.                                                                 *)
C11_ZeroCapacityInert ==
    [][capacity = 0 =>
          /\ ~last'.raised
          /\ last'.op = "set" =>
                /\ data' = <<>> /\ freq_map' = <<>>
                /\ UNCHANGED <<capacity, data, freq_map, min_freq>>
          /\ last'.op = "get" => last'.ret = None]_vars

(* a get right after a set of the same key on a capacity-0 store *)
C11_Witness == capacity = 0 /\ afterSet /\ last.op = "get" /\ last.ret = None

(* C12: with capacity > 0, set(k, v) immediately followed by get(k) returns v *)
(* and leaves the freq of k exactly 1 above its freq just after the set.      *)
C12_SetThenGet ==
    [][(afterSet' /\ capacity > 0) =>
          /\ last'.ret = Some(last.args[2])
          /\ last.args[1] \in Live /\ last.args[1] \in DOMAIN data'
          /\ data'[last.args[1]].freq = data[last.args[1]].freq + 1]_vars

(* the get follows a set that updated a present key of a full store *)
C12_Witness ==
    /\ afterSet /\ capacity > 0 /\ last.ret # None
    /\ data[last.args[1]].freq >= 3
    /\ Cardinality(Live) = capacity

(* C14: after every get or set every frequency that is a key of freq_map has *)
(* a non-empty group.                                                        *)
C14_NoEmptyGroup == \A f \in DOMAIN freq_map : freq_map[f] # <<>>

(* C15: each key of the key index appears in exactly one group, the group of *)
(* its entry's freq, and once; every key of any group is in the key index.   *)
Occurrences(g, k) == Cardinality({i \in 1..Len(g) : g[i] = k})
C15_IndexAndGroupsAgree ==
    /\ \A k \in Live :
          /\ {f \in DOMAIN freq_map : k \in Range(freq_map[f])} = {data[k].freq}
          /\ Occurrences(freq_map[data[k].freq], k) = 1
          /\ data[k].key = k
    /\ \A f \in DOMAIN freq_map : Range(freq_map[f]) \subseteq Live

(* an eviction left two live keys in two different groups *)
C15_Witness ==
    /\ last.evicted # {} /\ Cardinality(Live) >= 2
    /\ Cardinality(DOMAIN freq_map) >= 2

(* The most-recently-used member of a group *)
Newest(g) == g[Len(g)]

(* C16: set(k, v) on a new key with capacity > 0 removes an entry iff the    *)
(* store held capacity entries, and then exactly one; afterwards k is live   *)
(* with value v and freq 1 as the newest member of group 1, min_freq is 1,   *)
(* and every entry not evicted keeps its value, freq and relative order.     *)
C16_InsertNewKey ==
    [][LET k  == last'.args[1]
           ev == last'.evicted
       IN  (last'.op = "set" /\ capacity > 0 /\ k \notin Live) =>
              /\ ~last'.raised
              /\ ev \subseteq Live /\ Cardinality(ev) <= 1
              /\ ev # {} <=> Cardinality(Live) = capacity
              /\ DOMAIN data' = (Live \ ev) \cup {k}
              /\ data'[k].value = last'.args[2] /\ data'[k].freq = 1
              /\ 1 \in DOMAIN freq_map' /\ Newest(freq_map'[1]) = k
              /\ min_freq' = 1
              /\ \A j \in Live \ ev : data'[j] = data[j]
              /\ \A f \in DOMAIN freq_map :
                    LET kept == SelectSeq(freq_map[f], LAMBDA j : j \notin ev)
                    IN  kept # <<>> =>
                           /\ f \in DOMAIN freq_map'
                           /\ Remove(freq_map'[f], k) = kept]_vars

(* an insertion that evicted while a promoted key stayed with its freq *)
C16_Witness ==
    /\ last.op = "set" /\ last.evicted # {}
    /\ data[last.args[1]].freq = 1 /\ Newest(freq_map[1]) = last.args[1]
    /\ \E j \in Live : data[j].freq >= 2

(* C17: set(k, v) on a present key evicts nothing and keeps the set of live  *)
(* keys, even at capacity; it replaces the value of k by v and promotes k as *)
(* a get hit would (freq + 1, newest member of the new group, same min_freq  *)
(* adjustment); the other entries are untouched.                             *)
C17_UpdatePresentKey ==
    [][LET k == last'.args[1]
           g == get(self, k).self
       IN  (last'.op = "set" /\ k \in Live) =>
              /\ ~last'.raised /\ last'.evicted = {}
              /\ DOMAIN data' = Live
              /\ data'[k].value = last'.args[2]
              /\ data'[k].freq = data[k].freq + 1
              /\ Newest(freq_map'[data[k].freq + 1]) = k
              /\ data'[k].freq = g.data[k].freq
              /\ freq_map' = g.freq_map
              /\ min_freq' = g.min_freq
              /\ \A j \in Live \ {k} : data'[j] = data[j]]_vars

(* an update of an already promoted key in a full store of at least two keys *)
C17_Witness ==
    /\ last.op = "set" /\ last.evicted = {} /\ ~last.raised
    /\ Cardinality(Live) = capacity /\ capacity >= 2
    /\ data[last.args[1]].freq >= 3

(* C18: a get hit on k makes k the newest member of the group of its old     *)
(* freq + 1; min_freq becomes min_freq + 1 when k was the sole member of the *)
(* group at min_freq and is unchanged otherwise; every other entry keeps its *)
(* value, freq and position relative to the other members of its group.      *)
C18_GetHitFrame ==
    [][LET k == last'.args[1]
       IN  (last'.op = "get" /\ k \in Live) =>
              /\ data'[k].freq = data[k].freq + 1
              /\ data'[k].value = data[k].value
              /\ Newest(freq_map'[data[k].freq + 1]) = k
              /\ min_freq' = IF min_freq \in DOMAIN freq_map /\ freq_map[min_freq] = <<k>>
                             THEN min_freq + 1 ELSE min_freq
              /\ DOMAIN data' = Live
              /\ \A j \in Live \ {k} : data'[j] = data[j]
              /\ \A f \in DOMAIN freq_map :
                    LET kept == Remove(freq_map[f], k)
                    IN  kept # <<>> =>
                           /\ f \in DOMAIN freq_map'
                           /\ Remove(freq_map'[f], k) = kept]_vars

(* a hit that joined a group which already had a member *)
C18_Witness ==
    /\ last.op = "get" /\ last.ret # None
    /\ Len(freq_map[data[last.args[1]].freq]) >= 2
    /\ Newest(freq_map[data[last.args[1]].freq]) = last.args[1]

(* C19: get never removes an entry; after n get hits in a row on one key the *)
(* key is still live, each get returned its value and its freq is exactly n  *)
(* more than before the first; in a capacity-1 store it stays the only key   *)
(* and min_freq follows its freq.                                            *)
C19_RepeatedGets ==
    [][LET k == last'.args[1]
       IN  last'.op = "get" =>
              /\ DOMAIN data' = Live /\ last'.evicted = {}
              /\ run'.n > 0 =>
                    /\ k \in Live
                    /\ last'.ret = Some(data[k].value)
                    /\ data'[k].value = data[k].value
                    /\ data'[k].freq = run'.freq0 + run'.n
                    /\ capacity = 1 => DOMAIN data' = {k} /\ min_freq' = data'[k].freq]_vars

(* two gets in a row on the single key of a capacity-1 store *)
C19_Witness ==
    /\ capacity = 1 /\ run.n >= 2
    /\ Live = {last.args[1]} /\ last.ret # None

(* C20: for capacity >= 1, LFUCache and the reference LFU (per key value,    *)
(* freq and last access; victim found by scanning for the smallest           *)
(* (freq, last access)) hold the same keys with the same values and freqs    *)
(* after every call, and every get returned the same result.                 *)
C20_MatchesReference ==
    capacity >= 1 =>
        /\ {ref[i].key : i \in 1..Len(ref)} = Live
        /\ Len(ref) = Cardinality(Live)
        /\ \A i \in 1..Len(ref) :
              /\ data[ref[i].key].value = ref[i].value
              /\ data[ref[i].key].freq = ref[i].freq
        /\ last.op = "get" => last.ret = refRet

(* both have just evicted from a full store of two or more keys, one of them promoted *)
C20_Witness ==
    /\ capacity >= 2 /\ last.evicted # {}
    /\ Len(ref) = capacity
    /\ \E i \in 1..Len(ref) : ref[i].freq >= 2

----------------------------------------------------------------------------
(* Two execution contexts calling get and set on the same LFUCache, one     *)
(* statement at a time. A context's pc is the source line it executes next  *)
(* (line 56, which builds the new node locally, runs with line 57; the      *)
(* calls on lines 37 and 47 continue at line 24). The groups are read by    *)
(* key only, so freq_map stays a sequence of keys; the local `node` is the  *)
(* entry data[key] until that entry is deleted or replaced in data, and a   *)
(* private copy of it from then on.                                         *)
MaxConcCapacity == 1
MaxConcKey      == 2
MaxConcValue    == 1
MaxConcCalls    == 1

ConcCapacities == -1..MaxConcCapacity
ConcKeys       == 1..MaxConcKey
ConcValues     == 1..MaxConcValue

World == [self |-> self, ctx |-> ctx]

HoldsNode(x) == x.pc \in {"L24", "L25", "L26", "L27", "L28", "L30", "L31", "L38", "L46"}
NodeOf(W, c) ==
    IF W.ctx[c].node = <<>> THEN W.self.data[W.ctx[c].key] ELSE W.ctx[c].node[1]
UpdNode(W, c, n) ==
    IF W.ctx[c].node = <<>>
    THEN [W EXCEPT !.self.data[W.ctx[c].key] = n]
    ELSE [W EXCEPT !.ctx[c].node = <<n>>]
(* data[k] is about to be deleted or rebound by c: a context that holds it keeps the object *)
Detach(W, c, k) ==
    [W EXCEPT !.ctx = [o \in Contexts |->
        IF o # c /\ HoldsNode(W.ctx[o]) /\ W.ctx[o].key = k /\ W.ctx[o].node = <<>>
        THEN [W.ctx[o] EXCEPT !.node = <<W.self.data[k]>>]
        ELSE W.ctx[o]]]

Goto(W, c, line) == [W EXCEPT !.ctx[c].pc = line]
Return(W, c)     == [W EXCEPT !.ctx[c] = Idle(W.ctx[c].calls + 1)]
Raise(W, c)      == [W EXCEPT !.ctx[c] = Idle(W.ctx[c].calls + 1)]   \* KeyError ends the call

(* line 28: self.min_freq += 1 *)
min_freq_kept(s) == s
min_freq_incr(s) == [s EXCEPT !.min_freq = @ + 1]

(* The statement at the pc of context c *)
Exec(W, c) ==
    LET s  == W.self
        x  == W.ctx[c]
        fm == s.freq_map
        mf == s.min_freq
        SetFm(m) == [W EXCEPT !.self.freq_map = m]
    IN  CASE x.pc = "L34" ->
               IF x.key \notin DOMAIN s.data THEN Return(W, c) ELSE Goto(W, c, "L36")
          [] x.pc = "L36" ->
               IF x.key \notin DOMAIN s.data THEN Raise(W, c) ELSE Goto(W, c, "L24")
          [] x.pc = "L38" -> Return(W, c)
          [] x.pc = "L24" ->
               LET n   == NodeOf(W, c)
                   fm0 == Touch(fm, n.freq)
               IN  IF n.key \notin Range(fm0[n.freq])
                   THEN Raise(SetFm(fm0), c)
                   ELSE Goto(SetFm([fm0 EXCEPT ![n.freq] = Remove(@, n.key)]), c, "L25")
          [] x.pc = "L25" ->
               LET n   == NodeOf(W, c)
                   fm0 == Touch(fm, n.freq)
               IN  Goto(SetFm(fm0), c, IF fm0[n.freq] = <<>> THEN "L26" ELSE "L30")
          [] x.pc = "L26" ->
               LET n == NodeOf(W, c)
               IN  IF n.freq \notin DOMAIN fm
                   THEN Raise(W, c)
                   ELSE Goto(SetFm(Without(fm, n.freq)), c, "L27")
          [] x.pc = "L27" ->
               Goto(W, c, IF NodeOf(W, c).freq = mf THEN "L28" ELSE "L30")
          [] x.pc = "L28" ->
               Goto([W EXCEPT !.self = min_freq_incr(s)], c, "L30")
          [] x.pc = "L30" ->
               LET n == NodeOf(W, c)
               IN  Goto(UpdNode(W, c, [n EXCEPT !.freq = @ + 1]), c, "L31")
          [] x.pc = "L31" ->
               LET n   == NodeOf(W, c)
                   fm0 == Touch(fm, n.freq)
                   W1  == SetFm([fm0 EXCEPT ![n.freq] = Put(@, n.key)])
               IN  IF x.op = "get" THEN Goto(W1, c, "L38") ELSE Return(W1, c)
          [] x.pc = "L41" ->
               IF s.capacity = 0 THEN Return(W, c) ELSE Goto(W, c, "L44")
          [] x.pc = "L44" ->
               Goto(W, c, IF x.key \in DOMAIN s.data THEN "L45" ELSE "L49")
          [] x.pc = "L45" ->
               IF x.key \notin DOMAIN s.data THEN Raise(W, c) ELSE Goto(W, c, "L46")
          [] x.pc = "L46" ->
               Goto(UpdNode(W, c, [NodeOf(W, c) EXCEPT !.value = x.value]), c, "L24")
          [] x.pc = "L49" ->
               Goto(W, c, IF Cardinality(DOMAIN s.data) >= s.capacity THEN "L51" ELSE "L57")
          [] x.pc = "L51" ->
               LET fm0 == Touch(fm, mf)
               IN  IF fm0[mf] = <<>>
                   THEN Raise(SetFm(fm0), c)
                   ELSE Goto([W EXCEPT !.self.freq_map = [fm0 EXCEPT ![mf] = Tail(@)],
                                       !.ctx[c].lfu_key = Head(fm0[mf])], c, "L52")
          [] x.pc = "L52" ->
               IF x.lfu_key \notin DOMAIN s.data
               THEN Raise(W, c)
               ELSE Goto([Detach(W, c, x.lfu_key) EXCEPT !.self.data = Without(@, x.lfu_key)],
                         c, "L53")
          [] x.pc = "L53" ->
               LET fm0 == Touch(fm, mf)
               IN  Goto(SetFm(fm0), c, IF fm0[mf] = <<>> THEN "L54" ELSE "L57")
          [] x.pc = "L54" ->
               IF mf \notin DOMAIN fm THEN Raise(W, c) ELSE Goto(SetFm(Without(fm, mf)), c, "L57")
          [] x.pc = "L57" ->
               Goto([Detach(W, c, x.key) EXCEPT
                        !.self.data = With(@, x.key, Node(x.key, x.value))], c, "L58")
          [] x.pc = "L58" ->
               Goto(SetFm([Touch(fm, 1) EXCEPT ![1] = Put(@, x.key)]), c, "L59")
          [] x.pc = "L59" ->
               Return([W EXCEPT !.self.min_freq = 1], c)

(* May context c enter get or set now: always without an outer lock, and only *)
(* when no call is in progress if the calls are serialized                    *)
CanBegin(c) ==
    /\ ctx[c].pc = "idle"
    /\ serial => \A o \in Contexts : ctx[o].pc = "idle"

InitConc ==
    /\ client = "contexts"
    /\ serial \in BOOLEAN
    /\ capacity \in ConcCapacities
    /\ data = LFUCache(capacity).data
    /\ freq_map = LFUCache(capacity).freq_map
    /\ min_freq = LFUCache(capacity).min_freq
    /\ ctx = [c \in Contexts |-> Idle(0)]
    /\ pc = 0
    /\ out = <<>>
    /\ last = [op |-> "new", args |-> <<capacity>>, ret |-> None, evicted |-> {}, raised |-> FALSE]
    /\ lru = <<>>
    /\ lastSet = <<>>
    /\ afterSet = FALSE
    /\ run = NoRun
    /\ ref = <<>>
    /\ refRet = None

(* A context enters get(key) or set(key, value) *)
Begin ==
    /\ client = "contexts"
    /\ \E c \in Contexts, key \in ConcKeys :
         /\ CanBegin(c)
         /\ ctx[c].calls < MaxConcCalls
         /\ \/ ctx' = [ctx EXCEPT ![c] = [@ EXCEPT !.pc = "L34", !.op = "get", !.key = key]]
            \/ \E value \in ConcValues :
                 ctx' = [ctx EXCEPT ![c] = [@ EXCEPT !.pc = "L41", !.op = "set",
                                                     !.key = key, !.value = value]]
    /\ UNCHANGED <<capacity, data, freq_map, min_freq, client, pc, out, last, lru, lastSet,
                   afterSet, run, ref, refRet, serial>>

(* A context inside a call executes its next statement *)
Statement ==
    /\ client = "contexts"
    /\ \E c \in Contexts :
         /\ ctx[c].pc # "idle"
         /\ LET W == Exec(World, c)
            IN  /\ capacity' = W.self.capacity
                /\ data'     = W.self.data
                /\ freq_map' = W.self.freq_map
                /\ min_freq' = W.self.min_freq
                /\ ctx'      = W.ctx
    /\ UNCHANGED <<client, pc, out, last, lru, lastSet, afterSet, run, ref, refRet, serial>>

NextConc == Begin \/ Statement

SpecConc == InitConc /\ [][NextConc]_vars

(* What a context entering a call finds *)
KeysInTheirGroup ==
    \A k \in Live : /\ data[k].freq \in DOMAIN freq_map
                    /\ k \in Range(freq_map[data[k].freq])
MinFreqNamesGroup ==
    Live # {} => /\ min_freq \in DOMAIN freq_map
                 /\ freq_map[min_freq] # <<>>

(* C21 as stated: with the statements of two contexts interleaved without an *)
(* outer lock, a context entering a call never finds a key of the key index  *)
(* missing from the group of its freq, and min_freq names a non-empty group  *)
(* while the store holds a key.                                              *)
C21_InterleavedAsStated ==
    \A c \in Contexts :
        ctx[c].pc = "idle" => KeysInTheirGroup /\ MinFreqNamesGroup

(* C21 amended: when the calls of the two contexts are serialized (each call *)
(* completes before the next begins), a context entering a call never finds  *)
(* a key of the key index missing from the group of its freq, and min_freq   *)
(* names a non-empty group while the store holds a key.                      *)
C21_SerializedConsistent ==
    \A c \in Contexts :
        (serial /\ CanBegin(c)) => KeysInTheirGroup /\ MinFreqNamesGroup

(* both contexts have completed calls one after the other and left a promoted entry *)
C21_Witness ==
    /\ client = "contexts" /\ serial
    /\ \A c \in Contexts : ctx[c].calls > 0 /\ CanBegin(c)
    /\ Live # {} /\ min_freq >= 2

====
